---- MODULE Spec2Model ----
(***************************************************************************)
(* ros2_bag_to_csv: the record flattening of get_data.unpack_message, the  *)
(* per-topic table built from one log, the rosbag discovery walk, the      *)
(* conversion batch job and the merge job, as state machines.              *)
(*                                                                         *)
(* Strings are TLC strings where the code only concatenates and compares   *)
(* them (column keys), and tuples of one-character strings where the code  *)
(* looks inside them (file names: endswith, substring).                    *)
(***************************************************************************)
EXTENDS Integers, Sequences, FiniteSets, TLC

VARIABLES
    \* ---- unpack_message(msg, prefix)
    msg,              \* the record handed to unpack_message
    prefix,           \* the prefix argument
    series,           \* the returned pd.Series, as a list of <<key, value>>
    upc,              \* "call" before the call, "returned" after it
    \* ---- find_rosbag_files(from_dir)
    parentOf,         \* the directory tree: parentOf[d] is the directory holding d
    filesIn,          \* filesIn[d]: the names of the files of directory d
    walk,             \* os.walk: the directories still to visit, next one first
    bag_files,        \* the list being returned
    fpc,              \* "walk" during the walk, "returned" after it
    \* ---- distribute_csv_files.main()
    nconv,            \* len(conversion_keywords)
    nbags,            \* len(bag_files) of the batch
    openable,         \* openable[b]: reader.open succeeds on log b
    ci,               \* position of the outer loop (conversion)
    bi,               \* position of the inner loop (bag_path)
    attempts,         \* the (conversion, log) pairs processed so far, with outcome
    dpc,              \* "loop", "done", or "aborted" by an escaping exception
    \* ---- the table of one topic of one log
    nread,            \* reader.read_next() calls made
    timestamps,       \* read_msg_from_bag_as_dataframe: timestamps
    msgs,             \* read_msg_from_bag_as_dataframe: msgs
    final_dataframe,  \* the table built from them
    bpc,              \* "open", "reading", "concat_done", "join_done", "type_error"
    \* ---- join_csv_files.main()
    listing,          \* the names in the directory of the merge
    content,          \* content[name]: the CSV text of a file of the directory
    run,              \* the runs of join_csv_files made so far
    concatenated_df,  \* the last run's frame before sort_index
    jpc               \* "main", "done", or "value_error" raised by pd.concat

unpackVars == <<msg, prefix, series, upc>>
findVars == <<parentOf, filesIn, walk, bag_files, fpc>>
batchVars == <<nconv, nbags, openable, ci, bi, attempts, dpc>>
buildVars == <<nread, timestamps, msgs, final_dataframe, bpc>>
joinVars == <<listing, content, run, concatenated_df, jpc>>

vars == <<unpackVars, findVars, batchVars, buildVars, joinVars>>

(***************************************************************************)
(* A component that a specification does not run stays idle.               *)
(***************************************************************************)
UnpackIdle ==
    /\ msg = [kind |-> "unknown"]
    /\ prefix = ""
    /\ series = << >>
    /\ upc = "idle"

FindIdle ==
    /\ parentOf = << >>
    /\ filesIn = << >>
    /\ walk = << >>
    /\ bag_files = << >>
    /\ fpc = "idle"

BatchIdle ==
    /\ nconv = 0
    /\ nbags = 0
    /\ openable = << >>
    /\ ci = 0
    /\ bi = 0
    /\ attempts = << >>
    /\ dpc = "idle"

BuildIdle ==
    /\ nread = 0
    /\ timestamps = << >>
    /\ msgs = << >>
    /\ final_dataframe = << >>
    /\ bpc = "idle"

JoinIdle ==
    /\ listing = {}
    /\ content = << >>
    /\ run = 0
    /\ concatenated_df = << >>
    /\ jpc = "idle"

(***************************************************************************)
(* Bounds.                                                                 *)
(***************************************************************************)
MaxNodes == 4         \* nodes of a generated record tree
MaxDirs == 3          \* directories at and below from_dir
MaxConversions == 2   \* entries of conversion_keywords
MaxBagFiles == 2      \* logs of one batch
MaxRecords == 3       \* records read from one log
MaxStamp == 2         \* distinct record timestamps
MaxRows == 3          \* rows of the per-topic tables of one directory, in all
MaxRuns == 2          \* logs that share one parent directory: runs of the merge on it

(***************************************************************************)
(* Records.  A deserialised ROS 2 value is                                 *)
(*   - an object with __slots__ (a message): kind "msg", its slots in      *)
(*     __slots__ order as <<slot, value>> pairs;                           *)
(*   - a Python list: kind "list";                                         *)
(*   - a number, bool or string: kind "scalar";                            *)
(*   - anything else (None, a tuple, an ndarray, ...): kind "unknown".     *)
(***************************************************************************)
Scalar(v) == [kind |-> "scalar", val |-> v]
Unknown == [kind |-> "unknown"]
Msg(fields) == [kind |-> "msg", fields |-> fields]
List(items) == [kind |-> "list", items |-> items]

SlotNames == {"time", "stamp", "timestamp"}
Prefixes == {"", "imu_"}

\* hasattr(x, "__slots__")
HasSlots(x) == x.kind = "msg"
\* isinstance(x, list)
IsList(x) == x.kind = "list"

(***************************************************************************)
(* A Python dict / pd.Series index: insertion ordered, one entry per key.  *)
(***************************************************************************)
EmptySeries == << >>
Keys(d) == {d[i][1] : i \in 1..Len(d)}
HasKey(d, k) == \E i \in 1..Len(d) : d[i][1] = k

\* unpacked_data[key] = value
DictSet(d, k, v) ==
    IF HasKey(d, k)
    THEN [i \in 1..Len(d) |-> IF d[i][1] = k THEN <<k, v>> ELSE d[i]]
    ELSE Append(d, <<k, v>>)

\* unpacked_data.update(nested_data)
RECURSIVE DictUpdate(_, _)
DictUpdate(d, other) ==
    IF other = << >> THEN d
    ELSE DictUpdate(DictSet(d, Head(other)[1], Head(other)[2]), Tail(other))

\* for nested_key in nested_data.index:
\*     unpacked_data[f"{prefix}{slot}{nested_key}"] = nested_data[nested_key]
RECURSIVE StoreNested(_, _, _)
StoreNested(d, nested_data, base) ==
    IF nested_data = << >> THEN d
    ELSE StoreNested(DictSet(d, base \o Head(nested_data)[1], Head(nested_data)[2]),
                     Tail(nested_data), base)

\* f"{prefix}{slot}[{idx}]"
IndexedKey(base, idx) == base \o "[" \o ToString(idx) \o "]"

\* The plain assignments of lines 244 and 247: the value is stored as it is.
DropUnknownValue(d, k, v) == IF v.kind = "unknown" THEN d ELSE DictSet(d, k, v)
StoreValue(d, k, v) == DictSet(d, k, v)

RECURSIVE unpack_message(_, _)
RECURSIVE ItemLoop(_, _, _, _)
RECURSIVE SlotLoop(_, _, _, _)

\* for idx, item in enumerate(value): (idx1 is idx + 1)
ItemLoop(items, idx1, base, d) ==
    IF idx1 > Len(items) THEN d
    ELSE LET item == items[idx1]
             key  == IndexedKey(base, idx1 - 1)
         IN ItemLoop(items, idx1 + 1, base,
                IF HasSlots(item)
                THEN DictUpdate(d, unpack_message(item, key))
                ELSE StoreValue(d, key, item))

\* for slot in msg.__slots__:
SlotLoop(fields, k, pfx, d) ==
    IF k > Len(fields) THEN d
    ELSE LET slot  == fields[k][1]
             value == fields[k][2]
         IN SlotLoop(fields, k + 1, pfx,
                IF HasSlots(value)
                THEN StoreNested(d, unpack_message(value, ""), pfx \o slot)
                ELSE IF IsList(value)
                THEN ItemLoop(value.items, 1, pfx \o slot, d)
                ELSE StoreValue(d, pfx \o slot, value))

unpack_message(m, pfx) ==
    IF HasSlots(m) THEN SlotLoop(m.fields, 1, pfx, EmptySeries)
    ELSE EmptySeries

(***************************************************************************)
(* The record trees of a given number of nodes: every shape, every         *)
(* assignment of distinct slot names.                                      *)
(***************************************************************************)
RECURSIVE TreesOfSize(_)
RECURSIVE ItemsOfSize(_)
RECURSIVE FieldsOfSize(_, _)

ItemsOfSize(n) ==
    IF n = 0 THEN {<< >>}
    ELSE UNION {{<<t>> \o rest : t \in TreesOfSize(k), rest \in ItemsOfSize(n - k)}
                : k \in 1..n}

\* the slots of one class are distinct names
FieldsOfSize(n, names) ==
    IF n = 0 THEN {<< >>}
    ELSE UNION {{<<<<s, t>>>> \o rest :
                    t \in TreesOfSize(k), rest \in FieldsOfSize(n - k, names \ {s})}
                : <<k, s>> \in (1..n) \X names}

TreesOfSize(n) ==
    IF n = 1 THEN {Scalar(1), Unknown, Msg(<< >>), List(<< >>)}
    ELSE {Msg(f) : f \in FieldsOfSize(n - 1, SlotNames)}
            \cup {List(i) : i \in ItemsOfSize(n - 1)}

RecordsUpTo(maxNodes) == UNION {TreesOfSize(n) : n \in 1..maxNodes}

(***************************************************************************)
(* Shape of a record.                                                      *)
(***************************************************************************)
Children(m) ==
    IF m.kind = "msg" THEN [i \in 1..Len(m.fields) |-> m.fields[i][2]]
    ELSE IF m.kind = "list" THEN m.items
    ELSE << >>

RECURSIVE SumOver(_, _, _)
RECURSIVE NumScalarLeaves(_)
SumOver(kids, i, acc) ==
    IF i > Len(kids) THEN acc
    ELSE SumOver(kids, i + 1, acc + NumScalarLeaves(kids[i]))
NumScalarLeaves(m) ==
    IF m.kind = "scalar" THEN 1 ELSE SumOver(Children(m), 1, 0)

RECURSIVE HasUnknown(_)
HasUnknown(m) ==
    \/ m.kind = "unknown"
    \/ \E i \in 1..Len(Children(m)) : HasUnknown(Children(m)[i])

\* a list that is itself an element of a list
RECURSIVE HasListInList(_)
HasListInList(m) ==
    \/ /\ m.kind = "list"
       /\ \E i \in 1..Len(m.items) : m.items[i].kind = "list"
    \/ \E i \in 1..Len(Children(m)) : HasListInList(Children(m)[i])

(***************************************************************************)
(* File names, as tuples of characters.                                    *)
(***************************************************************************)
\* s.endswith(suffix)
endswith(s, suffix) ==
    /\ Len(s) >= Len(suffix)
    /\ SubSeq(s, Len(s) - Len(suffix) + 1, Len(s)) = suffix

\* sub in s
contains(s, sub) ==
    \E i \in 1..(Len(s) - Len(sub) + 1) : SubSeq(s, i, i + Len(sub) - 1) = sub

DotDb3 == <<".", "d", "b", "3">>
DATAIGNORE == <<"D", "A", "T", "A", "I", "G", "N", "O", "R", "E">>
BagFile == <<"r", "o", "s", "b", "a", "g", "2", "_", "0", ".", "d", "b", "3">>
MetadataFile == <<"m", "e", "t", "a", "d", "a", "t", "a", ".", "y", "a", "m", "l">>

(***************************************************************************)
(* find_rosbag_files.  Directory 0 is the directory above from_dir,        *)
(* directory 1 is from_dir, the others lie below it.                       *)
(***************************************************************************)
FromDir == 1
Dirs == 1..MaxDirs
DirFileNames == {DATAIGNORE, BagFile, MetadataFile}
\* the order in which the files of one directory are listed
ListedFiles == <<DATAIGNORE, MetadataFile, BagFile>>

\* os.path.exists(os.path.join(root, '../', 'DATAIGNORE'))
DataIgnoreExists(root) == DATAIGNORE \in filesIn[parentOf[root]]

\* the subdirectories of root, as os.walk descends into them
SubDirs(root) == {d \in Dirs : d # FromDir /\ parentOf[d] = root}
RECURSIVE SetToSeq(_)
SetToSeq(S) ==
    IF S = {} THEN << >>
    ELSE LET d == CHOOSE x \in S : \A y \in S : x <= y
         IN <<d>> \o SetToSeq(S \ {d})

\* for file in files: the .db3 files of root that are appended
RECURSIVE FileLoop(_, _, _)
FileLoop(root, k, acc) ==
    IF k > Len(ListedFiles) THEN acc
    ELSE LET file == ListedFiles[k]
         IN FileLoop(root, k + 1,
                IF file \notin filesIn[root] THEN acc
                ELSE IF ~endswith(file, DotDb3) THEN acc
                ELSE IF DataIgnoreExists(root) THEN acc
                ELSE Append(acc, <<root, file>>))

FindInit ==
    /\ parentOf \in {p \in [0..MaxDirs -> 0..MaxDirs] :
                        /\ p[0] = 0
                        /\ p[FromDir] = 0
                        /\ \A d \in Dirs \ {FromDir} : p[d] \in 1..(d - 1)}
    /\ filesIn \in {f \in [0..MaxDirs -> SUBSET DirFileNames] :
                        f[0] \subseteq {DATAIGNORE}}
    /\ walk = <<FromDir>>
    /\ bag_files = << >>
    /\ fpc = "walk"

\* one iteration of  for root, dirs, files in os.walk(from_dir)
WalkStep ==
    /\ fpc = "walk"
    /\ walk # << >>
    /\ LET root == Head(walk)
       IN /\ bag_files' = FileLoop(root, 1, bag_files)
          /\ walk' = SetToSeq(SubDirs(root)) \o Tail(walk)
    /\ UNCHANGED <<parentOf, filesIn, fpc>>
    /\ UNCHANGED <<unpackVars, batchVars, buildVars, joinVars>>

\* return bag_files
WalkReturn ==
    /\ fpc = "walk"
    /\ walk = << >>
    /\ fpc' = "returned"
    /\ UNCHANGED <<parentOf, filesIn, walk, bag_files>>
    /\ UNCHANGED <<unpackVars, batchVars, buildVars, joinVars>>

FindNext == WalkStep \/ WalkReturn

\* the directories a log in directory d lies in or below
RECURSIVE InOrBelow(_)
InOrBelow(d) == IF d = 0 THEN {0} ELSE {d} \cup InOrBelow(parentOf[d])

\* the .db3 files under from_dir
AllLogs == {<<d, f>> \in Dirs \X DirFileNames : f \in filesIn[d] /\ endswith(f, DotDb3)}

Returned == {bag_files[i] : i \in 1..Len(bag_files)}

\* C7: the walk returns exactly the .db3 files that lie neither in nor below
\* a directory that contains a DATAIGNORE file.
C7_IgnoreInOrBelow ==
    fpc = "returned" =>
        Returned = {l \in AllLogs : \A a \in InOrBelow(l[1]) : DATAIGNORE \notin filesIn[a]}


(***************************************************************************)
(* distribute_csv_files.main: every conversion is applied to every log,    *)
(* each pair inside its own try / except Exception.                        *)
(***************************************************************************)
\* The try body for one pair.  A log that cannot be opened makes
\* read_msg_from_bag_as_dataframe return [], and msgs["message"] then raises
\* TypeError; any later step (deserialising, unpacking, to_csv) may raise too.
TryBody(b, raises) ==
    IF ~openable[b] THEN "open_failed"
    ELSE IF raises THEN "raised"
    ELSE "written"

\* except Exception as e: print(...)  -- the loop goes on
ExceptReraise(outcome) == IF outcome = "written" THEN "loop" ELSE "aborted"
ExceptHandler(outcome) == "loop"

BatchInit ==
    /\ nconv \in 0..MaxConversions
    /\ nbags \in 0..MaxBagFiles
    /\ openable \in [1..nbags -> BOOLEAN]
    /\ ci = 1
    /\ bi = 1
    /\ attempts = << >>
    /\ dpc = "loop"

\* one iteration of  for bag_path in bag_files
ProcessPair ==
    /\ dpc = "loop"
    /\ ci <= nconv
    /\ bi <= nbags
    /\ \E raises \in BOOLEAN :
         LET outcome == TryBody(bi, raises)
         IN /\ attempts' = Append(attempts,
                                  [conversion |-> ci, bag |-> bi, outcome |-> outcome])
            /\ dpc' = ExceptHandler(outcome)
    /\ bi' = bi + 1
    /\ UNCHANGED <<nconv, nbags, openable, ci>>
    /\ UNCHANGED <<unpackVars, findVars, buildVars, joinVars>>

\* the inner loop is exhausted: next  for conversion in conversion_keywords
NextConversion ==
    /\ dpc = "loop"
    /\ ci <= nconv
    /\ bi > nbags
    /\ ci' = ci + 1
    /\ bi' = 1
    /\ UNCHANGED <<nconv, nbags, openable, attempts, dpc>>
    /\ UNCHANGED <<unpackVars, findVars, buildVars, joinVars>>

\* the outer loop is exhausted: main returns
BatchReturn ==
    /\ dpc = "loop"
    /\ ci > nconv
    /\ dpc' = "done"
    /\ UNCHANGED <<nconv, nbags, openable, ci, bi, attempts>>
    /\ UNCHANGED <<unpackVars, findVars, buildVars, joinVars>>

BatchNext == ProcessPair \/ NextConversion \/ BatchReturn

(***************************************************************************)
(* The table of one topic of one log.  A DataFrame is its index and its    *)
(* rows, each row the Series unpack_message returned for the record; its   *)
(* columns are the union of the rows' keys.                                *)
(***************************************************************************)
TopicName == "/imu"
Topics == {"/imu", "/gps"}
ConversionPrefix == "imu_"
BagMessages == {Msg(<<<<"time", Scalar(1)>>>>),
                Msg(<<<<"time", Scalar(2)>>, <<"stamp", List(<<Scalar(1)>>)>>>>)}

DataFrame(index, rows) == [index |-> index, rows |-> rows]

\* msgs["message"].apply(lambda x: unpack_message(x, prefix=conversion["prefix"]))
ApplyUnpack(index, messages) ==
    DataFrame(index, [i \in 1..Len(messages) |->
                        unpack_message(messages[i], ConversionPrefix)])

\* msgs.drop(columns=["message"])
DropMessage(index) == DataFrame(index, [i \in 1..Len(index) |-> EmptySeries])

IsUnique(index) == \A i, j \in 1..Len(index) : index[i] = index[j] => i = j

\* pd.concat([left, right], axis=1): frames with equal indexes are put side by
\* side as they are, whether or not the index has duplicates.
pd_concat_columns(left, right) ==
    IF left.index = right.index
    THEN DataFrame(left.index,
                   [i \in 1..Len(left.index) |-> DictUpdate(left.rows[i], right.rows[i])])
    ELSE "InvalidIndexError"

\* The pairs (i, j) of a left join on the index, in left order and, for one
\* left row, in right order.
RECURSIVE MatchPairs(_, _, _, _)
MatchPairs(lidx, ridx, i, j) ==
    IF i > Len(lidx) THEN << >>
    ELSE IF j > Len(ridx) THEN MatchPairs(lidx, ridx, i + 1, 1)
    ELSE (IF lidx[i] = ridx[j] THEN <<<<i, j>>>> ELSE << >>)
            \o MatchPairs(lidx, ridx, i, j + 1)

JoinOnIndex(left, right) ==
    LET pairs == MatchPairs(left.index, right.index, 1, 1)
    IN DataFrame([k \in 1..Len(pairs) |-> left.index[pairs[k][1]]],
                 [k \in 1..Len(pairs) |->
                    DictUpdate(left.rows[pairs[k][1]], right.rows[pairs[k][2]])])

\* left.join(right): a left join on the index.  Every left row is paired with
\* every right row of the same index value, so a value that occurs n times
\* gives n * n rows.  pandas releases that return equal indexes unchanged
\* keep the rows as they are instead.
pd_join(left, right) ==
    IF IsUnique(left.index) /\ IsUnique(right.index)
    THEN {JoinOnIndex(left, right)}
    ELSE {JoinOnIndex(left, right)}
            \cup (IF left.index = right.index
                  THEN {pd_concat_columns(left, right)} ELSE {})

BuildInit ==
    /\ nread = 0
    /\ timestamps = << >>
    /\ msgs = << >>
    /\ final_dataframe = << >>
    /\ bpc = "open"

\* reader.open(storage_options, converter_options) succeeds
OpenBag ==
    /\ bpc = "open"
    /\ bpc' = "reading"
    /\ UNCHANGED <<nread, timestamps, msgs, final_dataframe>>
    /\ UNCHANGED <<unpackVars, findVars, batchVars, joinVars>>

\* reader.open raises: [] is returned, and the caller's msgs["message"]
\* raises TypeError
OpenBagFails ==
    /\ bpc = "open"
    /\ bpc' = "type_error"
    /\ UNCHANGED <<nread, timestamps, msgs, final_dataframe>>
    /\ UNCHANGED <<unpackVars, findVars, batchVars, joinVars>>

\* one iteration of  while reader.has_next()
ReadNext ==
    /\ bpc = "reading"
    /\ nread < MaxRecords
    /\ nread' = nread + 1
    /\ \E topic \in Topics, t \in 1..MaxStamp, m \in BagMessages :
         IF topic = TopicName
         THEN /\ timestamps' = Append(timestamps, t)
              /\ msgs' = Append(msgs, m)
         ELSE UNCHANGED <<timestamps, msgs>>
    /\ UNCHANGED <<final_dataframe, bpc>>
    /\ UNCHANGED <<unpackVars, findVars, batchVars, joinVars>>

\* distribute_csv_files.main: unpacked_df, then pd.concat(..., axis=1)
BuildByConcat ==
    /\ bpc = "reading"
    /\ final_dataframe' = pd_concat_columns(DropMessage(timestamps),
                                            ApplyUnpack(timestamps, msgs))
    /\ bpc' = "concat_done"
    /\ UNCHANGED <<nread, timestamps, msgs>>
    /\ UNCHANGED <<unpackVars, findVars, batchVars, joinVars>>

\* read_unpackaged_message_from_bag_as_dataframe: unpacked_columns, then join
BuildByJoin ==
    /\ bpc = "reading"
    /\ final_dataframe' \in pd_join(DropMessage(timestamps),
                                    ApplyUnpack(timestamps, msgs))
    /\ bpc' = "join_done"
    /\ UNCHANGED <<nread, timestamps, msgs>>
    /\ UNCHANGED <<unpackVars, findVars, batchVars, joinVars>>

BuildNext == OpenBag \/ OpenBagFails \/ ReadNext \/ BuildByConcat \/ BuildByJoin


(***************************************************************************)
(* join_csv_files.  A CSV file is its header and its lines of cells; the   *)
(* empty cell is << >>.  A frame is its columns in order, its index and    *)
(* its rows, each row a function from the columns to cells.                *)
(***************************************************************************)
DotCsv == <<".", "c", "s", "v">>
Rosbag2 == <<"r", "o", "s", "b", "a", "g", "2">>
ImuCsv == <<"r", "o", "s", "b", "a", "g", "2", "i", "m", "u", ".", "c", "s", "v">>
GpsCsv == <<"r", "o", "s", "b", "a", "g", "2", "g", "p", "s", ".", "c", "s", "v">>
NotesCsv == <<"n", "o", "t", "e", "s", ".", "c", "s", "v">>
BagDir == <<"r", "o", "s", "b", "a", "g", "2">>
DataCsv == <<"d", "a", "t", "a", ".", "c", "s", "v">>

NaN == << >>
Frame(columns, index, rows) == [columns |-> columns, index |-> index, rows |-> rows]
Range(q) == {q[i] : i \in 1..Len(q)}

\* a timestamp as to_csv writes it: an integer index as digits, a datetime
\* index as an ISO date; parse_dates reads both as the same instant
IntText(t) == [text |-> "int", ns |-> t]
IsoText(t) == [text |-> "iso", ns |-> t]
parse_dates(cell) == cell.ns

\* pd.read_csv(file_path, index_col=timestamp_column, parse_dates=[...])
read_csv(csv, timestamp_column) ==
    LET pos == CHOOSE i \in 1..Len(csv.header) : csv.header[i] = timestamp_column
        at(c) == CHOOSE i \in 1..Len(csv.header) : csv.header[i] = c
        columns == SelectSeq(csv.header, LAMBDA c : c # timestamp_column)
    IN Frame(columns,
             [k \in 1..Len(csv.lines) |-> parse_dates(csv.lines[k][pos])],
             [k \in 1..Len(csv.lines) |->
                [c \in Range(columns) |-> csv.lines[k][at(c)]]])

\* df.to_csv(path): the index first, then the columns
to_csv(df, timestamp_column) ==
    [header |-> <<timestamp_column>> \o df.columns,
     lines  |-> [k \in 1..Len(df.index) |->
                    <<IsoText(df.index[k])>>
                        \o [j \in 1..Len(df.columns) |-> df.rows[k][df.columns[j]]]]]

\* the columns of the frames, each once, in order of first appearance
RECURSIVE UnionColumns(_, _)
UnionColumns(frames, acc) ==
    IF frames = << >> THEN acc
    ELSE UnionColumns(Tail(frames),
            acc \o SelectSeq(Head(frames).columns, LAMBDA c : c \notin Range(acc)))

RECURSIVE ConcatIndex(_)
ConcatIndex(frames) ==
    IF frames = << >> THEN << >> ELSE Head(frames).index \o ConcatIndex(Tail(frames))

RECURSIVE ConcatRows(_, _)
ConcatRows(frames, columns) ==
    IF frames = << >> THEN << >>
    ELSE LET df == Head(frames)
         IN [k \in 1..Len(df.rows) |->
                [c \in Range(columns) |->
                    IF c \in Range(df.columns) THEN df.rows[k][c] ELSE NaN]]
            \o ConcatRows(Tail(frames), columns)

\* pd.concat(dataframes, axis=0): the rows of every frame, one after the
\* other, over the union of the columns
pd_concat_first_only(frames) == Head(frames)
pd_concat(frames) ==
    LET columns == UnionColumns(frames, << >>)
    IN Frame(columns, ConcatIndex(frames), ConcatRows(frames, columns))

IsMonotonicIncreasing(index) ==
    \A i \in 1..(Len(index) - 1) : index[i] <= index[i + 1]

\* the orders of the rows ks of df that ascend by index, ties in any order
RECURSIVE AscendingOrders(_, _)
AscendingOrders(df, ks) ==
    IF ks = {} THEN {<< >>}
    ELSE UNION {{<<k>> \o rest : rest \in AscendingOrders(df, ks \ {k})}
                : k \in {k \in ks : \A j \in ks : df.index[k] <= df.index[j]}}

Reordered(df, order) ==
    Frame(df.columns,
          [i \in 1..Len(order) |-> df.index[order[i]]],
          [i \in 1..Len(order) |-> df.rows[order[i]]])

\* df.sort_index(): an index that already ascends is returned as it is;
\* otherwise the rows are sorted with the default kind, quicksort, which is
\* not stable: rows of equal index come out in an order the build decides.
sort_index(df) ==
    IF IsMonotonicIncreasing(df.index) THEN {df}
    ELSE {Reordered(df, order) : order \in AscendingOrders(df, 1..Len(df.index))}

\* if filename.endswith(".csv"): if not 'rosbag2' in filename: continue
AnyCsvIsInput(filename) == endswith(filename, DotCsv)
IsInput(filename) == endswith(filename, DotCsv) /\ contains(filename, Rosbag2)

\* the orders in which os.listdir may list the names of S
RECURSIVE ListingOrders(_)
ListingOrders(S) ==
    IF S = {} THEN {<< >>}
    ELSE UNION {{<<f>> \o rest : rest \in ListingOrders(S \ {f})} : f \in S}

\* the per-topic table of a log: row k of table number n holds n * 10 + k in
\* each of its columns
TopicCsv(n, columns, stamps) ==
    [header |-> <<"timestamp">> \o columns,
     lines  |-> [k \in 1..Len(stamps) |->
                    <<IntText(stamps[k])>> \o [j \in 1..Len(columns) |-> <<n * 10 + k>>]]]

Stamps == UNION {[1..n -> 1..MaxStamp] : n \in 0..MaxRows}
ImuColumns == <<"imu_x", "seq">>
GpsColumns == <<"seq", "gps_x">>
NotesContent == TopicCsv(3, <<"note">>, <<1>>)

JoinInit ==
    /\ \E present \in SUBSET {ImuCsv, GpsCsv} :
       \E imu \in Stamps, gps \in Stamps :
          /\ Len(imu) + Len(gps) <= MaxRows
          /\ listing = present \cup {NotesCsv, BagDir}
          /\ content = [f \in present \cup {NotesCsv} |->
                            IF f = ImuCsv THEN TopicCsv(1, ImuColumns, imu)
                            ELSE IF f = GpsCsv THEN TopicCsv(2, GpsColumns, gps)
                            ELSE NotesContent]
    /\ run = 0
    /\ concatenated_df = << >>
    /\ jpc = "main"

Selected == {f \in listing : IsInput(f)}

\* join_csv_files(directory, 'data.csv') with at least one input file
JoinWrites ==
    /\ jpc = "main"
    /\ run < MaxRuns
    /\ Selected # {}
    /\ \E order \in ListingOrders(Selected) :
         LET dataframes == [k \in 1..Len(order) |-> read_csv(content[order[k]], "timestamp")]
             concatenated == pd_concat(dataframes)
         IN /\ concatenated_df' = concatenated
            /\ \E sorted \in sort_index(concatenated) :
                 content' = [f \in (DOMAIN content) \cup {DataCsv} |->
                                IF f = DataCsv THEN to_csv(sorted, "timestamp")
                                ELSE content[f]]
    /\ listing' = listing \cup {DataCsv}
    /\ run' = run + 1
    /\ UNCHANGED jpc
    /\ UNCHANGED <<unpackVars, findVars, batchVars, buildVars>>

\* join_csv_files with no input file: pd.concat([]) raises ValueError, which
\* nothing in main catches
JoinRaises ==
    /\ jpc = "main"
    /\ run < MaxRuns
    /\ Selected = {}
    /\ jpc' = "value_error"
    /\ UNCHANGED <<listing, content, run, concatenated_df>>
    /\ UNCHANGED <<unpackVars, findVars, batchVars, buildVars>>

\* for bag_path in bag_files: no further log lies below this directory
JoinReturn ==
    /\ jpc = "main"
    /\ jpc' = "done"
    /\ UNCHANGED <<listing, content, run, concatenated_df>>
    /\ UNCHANGED <<unpackVars, findVars, batchVars, buildVars>>

JoinNext == JoinWrites \/ JoinRaises \/ JoinReturn


(***************************************************************************)
(* unpack_message as a state machine: one call on one record.              *)
(***************************************************************************)
UnpackInit ==
    /\ msg \in RecordsUpTo(MaxNodes)
    /\ prefix \in Prefixes
    /\ series = EmptySeries
    /\ upc = "call"

Unpack ==
    /\ upc = "call"
    /\ series' = unpack_message(msg, prefix)
    /\ upc' = "returned"
    /\ UNCHANGED <<msg, prefix>>
    /\ UNCHANGED <<findVars, batchVars, buildVars, joinVars>>


(***************************************************************************)
(* Properties of unpack_message.                                           *)
(***************************************************************************)
Values(d) == {d[i][2] : i \in 1..Len(d)}

\* C1: a record with slots, built of messages, scalars and lists of messages
\* or scalars, flattens to as many column keys as it has scalar leaves: no
\* two structural paths share a key, so no entry overwrites another.
C1_NoKeyCollision ==
    (upc = "returned" /\ HasSlots(msg) /\ ~HasUnknown(msg) /\ ~HasListInList(msg))
        => Len(series) = NumScalarLeaves(msg)

\* C5: when the record holds only scalars, messages and lists, every value of
\* the flattened output is a scalar, never a list or a nested record: each
\* structured list element was flattened further under prefix + "[i]".
C5_ValuesAreScalars ==
    (upc = "returned" /\ ~HasUnknown(msg))
        => \A v \in Values(series) : v.kind = "scalar"

RECURSIVE UnknownKeys(_, _)
UnknownKeys(m, base) ==
    IF m.kind = "unknown" THEN {base}
    ELSE IF m.kind = "msg"
    THEN UNION {
           LET slot == m.fields[k][1]
               value == m.fields[k][2]
           IN IF value.kind = "list"
              THEN UNION {IF value.items[i].kind \in {"msg", "unknown"}
                          THEN UnknownKeys(value.items[i],
                                           IndexedKey(base \o slot, i - 1))
                          ELSE {} : i \in 1..Len(value.items)}
              ELSE UnknownKeys(value, base \o slot)
           : k \in 1..Len(m.fields)}
    ELSE {}

C9_TimestampReserved ==
    upc = "returned" => "timestamp" \notin Keys(series)

(***************************************************************************)
(* Properties of the conversion batch job.                                 *)
(***************************************************************************)
RECURSIVE PairsInOrder(_, _)
PairsInOrder(c, b) ==
    IF c > nconv THEN << >>
    ELSE IF b > nbags THEN PairsInOrder(c + 1, 1)
    ELSE <<<<c, b>>>> \o PairsInOrder(c, b + 1)

Attempted == [k \in 1..Len(attempts) |-> <<attempts[k].conversion, attempts[k].bag>>]

\* C6: no pair's failure ends the run: the job is never aborted, and when it
\* is done every (conversion, log) pair has been attempted, once, in order.
C6_BatchRunsToEnd ==
    /\ dpc # "aborted"
    /\ dpc = "done" => Attempted = PairsInOrder(1, 1)

\* the job is done, a log could not be opened, another pair raised, and a
\* pair after both was written
C6_Witness ==
    /\ dpc = "done"
    /\ \E i, j, k \in 1..Len(attempts) :
         /\ i < k /\ j < k
         /\ attempts[i].outcome = "open_failed"
         /\ attempts[j].outcome = "raised"
         /\ attempts[k].outcome = "written"

(***************************************************************************)
(* Properties of the table of one topic of one log.                        *)
(***************************************************************************)
\* C4: the table has one row per record read, in read order, each row the
\* flattened record under its timestamp, on both ways of building it.
C4_OneRowPerRecord ==
    bpc \in {"concat_done", "join_done"} =>
        /\ final_dataframe.index = timestamps
        /\ final_dataframe.rows = ApplyUnpack(timestamps, msgs).rows

(***************************************************************************)
(* Properties of the merge job.                                            *)
(***************************************************************************)
\* the per-topic tables of the directory, and their rows as <<file, line>>
SourceFiles == listing \cap {ImuCsv, GpsCsv}
SourceRows == {<<f, k>> \in SourceFiles \X (1..MaxRows) : k <= Len(content[f].lines)}
SourceColumns(f) == Range(Tail(content[f].header))
CellOf(f, k, c) ==
    content[f].lines[k][CHOOSE i \in 1..Len(content[f].header) : content[f].header[i] = c]

\* the merged table, read back from data.csv
Merged == read_csv(content[DataCsv], "timestamp")

\* row i of the merged table is the source row sr: its timestamp, the values
\* of its own table's columns, and null in every other column
IsSourceRow(i, sr) ==
    /\ Merged.index[i] = parse_dates(content[sr[1]].lines[sr[2]][1])
    /\ \A c \in Range(Merged.columns) :
         Merged.rows[i][c] = IF c \in SourceColumns(sr[1])
                             THEN CellOf(sr[1], sr[2], c) ELSE NaN

\* (a) and (c): the merged rows are the source rows, one for one
EachSourceRowOnce ==
    /\ Len(Merged.index) = Cardinality(SourceRows)
    /\ Range(Merged.columns) = UNION {SourceColumns(f) : f \in SourceFiles}
    /\ \A sr \in SourceRows :
         Cardinality({i \in 1..Len(Merged.index) : IsSourceRow(i, sr)}) = 1
    /\ \A i \in 1..Len(Merged.index) : \E sr \in SourceRows : IsSourceRow(i, sr)

\* (b): the merged rows ascend by timestamp
AscendsByTimestamp == IsMonotonicIncreasing(Merged.index)

MergeCorrect ==
    /\ DataCsv \in DOMAIN content
    /\ EachSourceRowOnce
    /\ AscendsByTimestamp

\* C2 as stated: whatever per-topic tables the directory holds, once
\* join_csv_files has been called on it data.csv holds exactly their rows,
\* each with its own table's values and null elsewhere, in ascending order of
\* timestamp.
C2_MergeOfAnyTables ==
    (run >= 1 \/ jpc = "value_error") => MergeCorrect

\* C2 as amended: when the directory holds at least one per-topic table the
\* merge does not raise, and once it has run data.csv holds exactly the
\* tables' rows, each with its own table's values and null elsewhere, in
\* ascending order of timestamp.
C2_MergeOfSomeTables ==
    SourceFiles # {} =>
        /\ jpc # "value_error"
        /\ run >= 1 => MergeCorrect

\* two tables with rows of equal timestamp have been merged, and the sort had
\* rows to move
C2_Witness ==
    /\ run >= 1
    /\ SourceFiles = {ImuCsv, GpsCsv}
    /\ \E i \in 1..Len(content[ImuCsv].lines), j \in 1..Len(content[GpsCsv].lines) :
         content[ImuCsv].lines[i][1].ns = content[GpsCsv].lines[j][1].ns
    /\ ~IsMonotonicIncreasing(concatenated_df.index)
    /\ MergeCorrect

\* the place of merged row i in the frame before the sort
PlaceBeforeSort(i) ==
    CHOOSE k \in 1..Len(concatenated_df.index) :
        /\ concatenated_df.index[k] = Merged.index[i]
        /\ concatenated_df.rows[k] = Merged.rows[i]

\* C3: rows of equal timestamp are in the merged table in the order they had
\* in the concatenated frame before the sort.
C3_SortIsStable ==
    run >= 1 =>
        \A i, j \in 1..Len(Merged.index) :
            (i < j /\ Merged.index[i] = Merged.index[j])
                => PlaceBeforeSort(i) < PlaceBeforeSort(j)

\* what one run of join_csv_files over the per-topic tables can write
SingleRunResults ==
    {to_csv(sorted, "timestamp") :
        sorted \in UNION {sort_index(pd_concat(
                            [k \in 1..Len(order) |->
                                read_csv(content[order[k]], "timestamp")]))
                          : order \in ListingOrders(SourceFiles)}}

\* C10: data.csv is never among the files the merge selects as inputs, and
\* after any number of runs it is what a single run over the per-topic
\* tables writes, with each of their rows in it once.
C10_OutputNeverInput ==
    /\ ~IsInput(DataCsv)
    /\ DataCsv \notin Selected
    /\ run >= 1 =>
        /\ content[DataCsv] \in SingleRunResults
        /\ EachSourceRowOnce

\* the merge has run again over a directory that already held its data.csv,
\* with rows in both per-topic tables
C10_Witness ==
    /\ run >= 2
    /\ DataCsv \in listing
    /\ SourceFiles = {ImuCsv, GpsCsv}
    /\ \A f \in SourceFiles : Len(content[f].lines) >= 1

(***************************************************************************)
(* Specifications, one per component.                                      *)
(***************************************************************************)
InitUnpack == UnpackInit /\ FindIdle /\ BatchIdle /\ BuildIdle /\ JoinIdle
InitFind == FindInit /\ UnpackIdle /\ BatchIdle /\ BuildIdle /\ JoinIdle
InitBatch == BatchInit /\ UnpackIdle /\ FindIdle /\ BuildIdle /\ JoinIdle
InitBuild == BuildInit /\ UnpackIdle /\ FindIdle /\ BatchIdle /\ JoinIdle
InitJoin == JoinInit /\ UnpackIdle /\ FindIdle /\ BatchIdle /\ BuildIdle

SpecUnpack == InitUnpack /\ [][Unpack]_vars
SpecFind == InitFind /\ [][FindNext]_vars
SpecBatch == InitBatch /\ [][BatchNext]_vars
SpecBuild == InitBuild /\ [][BuildNext]_vars
SpecJoin == InitJoin /\ [][JoinNext]_vars

====
